---------------------------- MODULE Spec2Model ----------------------------
(***************************************************************************)
(* api-docs-normalizer: the endpoint extractor (parser.py), the schema     *)
(* normalizer (normalizer.py), the content cache (cache.py) and the CLI    *)
(* run that ties them together (cli.py).                                   *)
(*                                                                         *)
(* A Python str is a sequence of one-character strings, so that strip,     *)
(* split, the regular expressions and the string formatting are computed   *)
(* character by character.  A Python dict is an ordered sequence of        *)
(* [key, value] entries (insertion order, as dict keeps it).               *)
(***************************************************************************)
EXTENDS Integers, Sequences, FiniteSets, TLC

VARIABLES
    pc,         \* position of the pipeline / of the CLI run
    content,    \* the input text
    title,      \* the title (stem of the input file name)
    endpoints,  \* the list of Endpoint records
    schema,     \* the document built by Normalizer.normalize
    inputFile,  \* the input path on disk: "ok", "missing", "unreadable"
    cacheDirOk, \* whether the cache directory can be created
    cache,      \* the cache directory: hash -> file state
    spec,       \* the document returned by _get_or_process_spec
    output,     \* the document written to the output file
    stderr,     \* the set of messages on the diagnostic stream in this run
    error,      \* the exception that ended the run, or "none"
    exitCode    \* the exit status of the last run, -1 while none has ended

vars == <<pc, content, title, endpoints, schema, inputFile, cacheDirOk,
          cache, spec, output, stderr, error, exitCode>>

cliVars == <<inputFile, cacheDirOk, cache, spec, output, stderr, error, exitCode>>

None == [none |-> TRUE]

(***************************************************************************)
(* Bounds of the model.                                                    *)
(***************************************************************************)
MaxLines == 5

MaxEndpoints == 2

(***************************************************************************)
(* Characters and strings.                                                 *)
(***************************************************************************)
LowerLetters == <<"a","b","c","d","e","f","g","h","i","j","k","l","m",
                  "n","o","p","q","r","s","t","u","v","w","x","y","z">>

UpperLetters == <<"A","B","C","D","E","F","G","H","I","J","K","L","M",
                  "N","O","P","Q","R","S","T","U","V","W","X","Y","Z">>

Digits == {"0","1","2","3","4","5","6","7","8","9"}

Range(s) == {s[i] : i \in 1..Len(s)}

\* the printable ASCII characters 32..95 and 97..126, in code point order
AsciiLow == <<" ","!","\"","#","$","%","&","'","(",")","*","+",",","-",".","/",
              "0","1","2","3","4","5","6","7","8","9",":",";","<","=",">","?",
              "@","A","B","C","D","E","F","G","H","I","J","K","L","M","N","O",
              "P","Q","R","S","T","U","V","W","X","Y","Z","[","\\","]","^","_">>

AsciiHigh == <<"a","b","c","d","e","f","g","h","i","j","k","l","m","n","o",
               "p","q","r","s","t","u","v","w","x","y","z","{","|","}","~">>

\* ord(c)
Ord(c) ==
    IF c = "\t" THEN 9
    ELSE IF c = "\n" THEN 10
    ELSE IF \E i \in 1..Len(AsciiLow) : AsciiLow[i] = c
    THEN 31 + (CHOOSE i \in 1..Len(AsciiLow) : AsciiLow[i] = c)
    ELSE 96 + (CHOOSE i \in 1..Len(AsciiHigh) : AsciiHigh[i] = c)

\* str.isspace() / the regular expression class \s
IsSpace(c) == c \in {" ", "\t", "\n"}

\* the regular expression class \w
IsWord(c) == c \in Range(LowerLetters) \cup Range(UpperLetters) \cup Digits \cup {"_"}

UpperChar(c) ==
    IF c \in Range(LowerLetters)
    THEN UpperLetters[CHOOSE i \in 1..26 : LowerLetters[i] = c]
    ELSE c

LowerChar(c) ==
    IF c \in Range(UpperLetters)
    THEN LowerLetters[CHOOSE i \in 1..26 : UpperLetters[i] = c]
    ELSE c

\* str.upper()
Upper(s) == [i \in 1..Len(s) |-> UpperChar(s[i])]

\* str.lower()
Lower(s) == [i \in 1..Len(s) |-> LowerChar(s[i])]

\* the number of leading characters of s, from position i on, that satisfy
\* the class wanted: whitespace (space = TRUE) or non-whitespace
RECURSIVE Span(_, _, _)
Span(s, i, space) ==
    IF i > Len(s) \/ IsSpace(s[i]) # space THEN 0
    ELSE 1 + Span(s, i + 1, space)

RECURSIVE LStrip(_)
LStrip(s) == IF s # <<>> /\ IsSpace(Head(s)) THEN LStrip(Tail(s)) ELSE s

RECURSIVE RStrip(_)
RStrip(s) ==
    IF s # <<>> /\ IsSpace(s[Len(s)]) THEN RStrip(SubSeq(s, 1, Len(s) - 1)) ELSE s

\* str.strip()
Strip(s) == RStrip(LStrip(s))

\* str.startswith(prefix)
StartsWith(s, prefix) ==
    Len(s) >= Len(prefix) /\ SubSeq(s, 1, Len(prefix)) = prefix

\* str.split(sep) for a one-character separator
RECURSIVE Split(_, _)
Split(s, sep) ==
    IF \A i \in 1..Len(s) : s[i] # sep THEN <<s>>
    ELSE LET k == CHOOSE i \in 1..Len(s) :
                      s[i] = sep /\ \A j \in 1..(i - 1) : s[j] # sep
         IN  <<SubSeq(s, 1, k - 1)>> \o Split(SubSeq(s, k + 1, Len(s)), sep)

\* sep.join(parts)
RECURSIVE Join(_, _)
Join(parts, sep) ==
    IF parts = <<>> THEN <<>>
    ELSE IF Len(parts) = 1 THEN parts[1]
    ELSE parts[1] \o sep \o Join(Tail(parts), sep)

\* s < t in Python's string order (code point by code point)
RECURSIVE StrLess(_, _)
StrLess(s, t) ==
    IF t = <<>> THEN FALSE
    ELSE IF s = <<>> THEN TRUE
    ELSE IF Ord(s[1]) # Ord(t[1]) THEN Ord(s[1]) < Ord(t[1])
    ELSE StrLess(Tail(s), Tail(t))

\* sorted(set of strings)
RECURSIVE Sorted(_)
Sorted(S) ==
    IF S = {} THEN <<>>
    ELSE LET m == CHOOSE x \in S : \A y \in S \ {x} : StrLess(x, y)
         IN  <<m>> \o Sorted(S \ {m})

(***************************************************************************)
(* parser.py                                                               *)
(***************************************************************************)
HTTP_METHODS ==
    << <<"G","E","T">>, <<"P","O","S","T">>, <<"P","U","T">>,
       <<"D","E","L","E","T","E">>, <<"P","A","T","C","H">>,
       <<"H","E","A","D">>, <<"O","P","T","I","O","N","S">> >>

MAX_DESCRIPTION_LINES == 3

\* Endpoint.__init__: the method is stored in upper case
Endpoint(method, path, description, parameters) ==
    [method |-> Upper(method), path |-> path,
     description |-> description, parameters |-> parameters]

\* ENDPOINT_PATTERN.match(s): ^(GET|...)\s+(/[^\s]+) with IGNORECASE; the
\* result is None or the two groups
ENDPOINT_PATTERN(s) ==
    LET toks == {i \in 1..Len(HTTP_METHODS) :
                    /\ Len(s) >= Len(HTTP_METHODS[i])
                    /\ Upper(SubSeq(s, 1, Len(HTTP_METHODS[i]))) = HTTP_METHODS[i]}
    IN  IF toks = {} THEN None
        ELSE LET t  == CHOOSE i \in toks : \A j \in toks : i <= j
                 k  == Len(HTTP_METHODS[t])
                 ws == Span(s, k + 1, TRUE)
                 p  == k + ws + 1
                 n  == Span(s, p + 1, FALSE)
             IN  IF ws >= 1 /\ p <= Len(s) /\ s[p] = "/" /\ n >= 1
                 THEN [method |-> SubSeq(s, 1, k), path |-> SubSeq(s, p, p + n)]
                 ELSE None

\* PARAM_PATTERN.findall(path): every non-overlapping \{(\w+)\}, left to right
RECURSIVE FindParams(_, _)
FindParams(s, i) ==
    IF i > Len(s) THEN <<>>
    ELSE IF s[i] # "{" THEN FindParams(s, i + 1)
    ELSE LET ws == {j \in (i + 1)..Len(s) : \A k \in (i + 1)..j : IsWord(s[k])}
             n  == Cardinality(ws)
         IN  IF n >= 1 /\ i + n + 1 <= Len(s) /\ s[i + n + 1] = "}"
             THEN <<SubSeq(s, i + 1, i + n)>> \o FindParams(s, i + n + 2)
             ELSE FindParams(s, i + 1)

_extract_path_parameters(path) == FindParams(path, 1)

\* the third rule without its condition on the fragments collected
_should_stop_description_extraction_AnyEmpty(line, description_parts) ==
    \/ ENDPOINT_PATTERN(line) # None
    \/ StartsWith(line, <<"#">>)
    \/ line = <<>>

_should_stop_description_extraction(line, description_parts) ==
    \/ ENDPOINT_PATTERN(line) # None
    \/ StartsWith(line, <<"#">>)
    \/ line = <<>> /\ description_parts # <<>>

\* the loop of _extract_description over range(current_index, end_index);
\* indices are those of the code plus one (sequences start at 1)
RECURSIVE DescriptionLoop(_, _, _, _)
DescriptionLoop(lines, line_index, end_index, description_parts) ==
    IF line_index >= end_index THEN description_parts
    ELSE LET line == Strip(lines[line_index])
         IN  IF _should_stop_description_extraction(line, description_parts)
             THEN description_parts
             ELSE DescriptionLoop(lines, line_index + 1, end_index,
                     IF line # <<>> THEN Append(description_parts, line)
                     ELSE description_parts)

Min(a, b) == IF a <= b THEN a ELSE b

_extract_description(lines, start_index) ==
    LET current_index == start_index + 1
        end_index == Min(current_index + MAX_DESCRIPTION_LINES, Len(lines) + 1)
    IN  Strip(Join(DescriptionLoop(lines, current_index, end_index, <<>>), <<" ">>))

_parse_line_for_endpoint(line, all_lines, line_index) ==
    LET match == ENDPOINT_PATTERN(Strip(line))
    IN  IF match = None THEN None
        ELSE Endpoint(match.method, match.path,
                      _extract_description(all_lines, line_index),
                      _extract_path_parameters(match.path))

\* the loop of Parser.parse over enumerate(lines)
RECURSIVE ParseLoop(_, _, _)
ParseLoop(lines, line_index, acc) ==
    IF line_index > Len(lines) THEN acc
    ELSE LET endpoint == _parse_line_for_endpoint(lines[line_index], lines, line_index)
         IN  ParseLoop(lines, line_index + 1,
                       IF endpoint # None THEN Append(acc, endpoint) ELSE acc)

\* a parse that drops a declaration whose method and path were seen before
parse_Dedup(text) ==
    LET all == ParseLoop(Split(text, "\n"), 1, <<>>)
        keep == {i \in 1..Len(all) :
                    \A j \in 1..(i - 1) :
                        ~(all[i].method = all[j].method /\ all[i].path = all[j].path)}
    IN  [n \in 1..Cardinality(keep) |->
            all[CHOOSE i \in keep : Cardinality({k \in keep : k <= i}) = n]]

parse(text) == ParseLoop(Split(text, "\n"), 1, <<>>)


(***************************************************************************)
(* A dict, in insertion order.                                             *)
(***************************************************************************)
DictHas(d, k) == \E i \in 1..Len(d) : d[i].key = k

DictGet(d, k) == d[CHOOSE i \in 1..Len(d) : d[i].key = k].value

\* a dict whose existing keys are never overwritten
DictSet_KeepFirst(d, k, v) ==
    IF \E i \in 1..Len(d) : d[i].key = k THEN d
    ELSE Append(d, [key |-> k, value |-> v])

\* d[k] = v: a new key goes last, an existing key keeps its place
DictSet(d, k, v) ==
    IF DictHas(d, k)
    THEN [i \in 1..Len(d) |-> IF d[i].key = k THEN [key |-> k, value |-> v] ELSE d[i]]
    ELSE Append(d, [key |-> k, value |-> v])

(***************************************************************************)
(* normalizer.py                                                           *)
(***************************************************************************)
OPENAPI_VERSION == "3.0.0"

API_VERSION == "1.0.0"

DEFAULT_SERVER_URL == "https://api.example.com"

\* the two descriptions are written here without their accents
DEFAULT_SERVER_DESCRIPTION == "Servidor de produccion"

DEFAULT_API_DESCRIPTION == "API normalizada desde documentacion no estructurada"

SUCCESS_STATUS_CODE == "200"

SUCCESS_DESCRIPTION == "Respuesta exitosa"

DEFAULT_CONTENT_TYPE == "application/json"

DefaultTag == <<"d","e","f","a","u","l","t">>

_extract_tag_from_path(path) ==
    LET path_segments == Split(path, "/")
    IN  IF Len(path_segments) < 2 THEN DefaultTag
        ELSE LET first_segment == path_segments[2]
                 tag == Split(first_segment, "{")[1]
             IN  IF tag # <<>> THEN tag ELSE DefaultTag

_extract_path_segments(path) ==
    SelectSeq(Split(path, "/"), LAMBDA segment : segment # <<>> /\ segment[1] # "{")

\* the second literal segment taken where the last one is meant
_generate_operation_id_Second(endpoint) ==
    LET method == Lower(endpoint.method)
        path_segments == _extract_path_segments(endpoint.path)
    IN  IF path_segments = <<>> THEN method \o <<"_","r","o","o","t">>
        ELSE LET resource == path_segments[1]
             IN  IF endpoint.parameters # <<>>
                 THEN method \o <<"_">> \o resource \o <<"_","b","y","_">>
                          \o endpoint.parameters[1]
                 ELSE IF Len(path_segments) > 1
                 THEN method \o <<"_">> \o resource \o <<"_">> \o path_segments[2]
                 ELSE method \o <<"_">> \o resource

_generate_operation_id(endpoint) ==
    LET method == Lower(endpoint.method)
        path_segments == _extract_path_segments(endpoint.path)
    IN  IF path_segments = <<>> THEN method \o <<"_","r","o","o","t">>
        ELSE LET resource == path_segments[1]
             IN  IF endpoint.parameters # <<>>
                 THEN method \o <<"_">> \o resource \o <<"_","b","y","_">>
                          \o endpoint.parameters[1]
                 ELSE IF Len(path_segments) > 1
                 THEN method \o <<"_">> \o resource \o <<"_">>
                          \o path_segments[Len(path_segments)]
                 ELSE method \o <<"_">> \o resource

IdentificadorDel ==
    <<"I","d","e","n","t","i","f","i","c","a","d","o","r"," ","d","e","l"," ">>

_create_path_parameters(param_names) ==
    [i \in 1..Len(param_names) |->
        [name |-> param_names[i],
         in |-> "path",
         required |-> TRUE,
         schema |-> [type |-> "string"],
         description |-> IdentificadorDel \o param_names[i]]]

_create_default_responses ==
    SUCCESS_STATUS_CODE :>
        [description |-> SUCCESS_DESCRIPTION,
         content |-> (DEFAULT_CONTENT_TYPE :> [schema |-> [type |-> "object"]])]

\* an operation that always carries the description key
_create_operation_AlwaysDescription(endpoint) ==
    LET tag == _extract_tag_from_path(endpoint.path)
        summary == IF endpoint.description # <<>> THEN endpoint.description
                   ELSE endpoint.method \o <<" ">> \o endpoint.path
        operation0 == [summary |-> summary,
                       operationId |-> _generate_operation_id(endpoint),
                       tags |-> <<tag>>,
                       description |-> endpoint.description]
        operation2 == IF endpoint.parameters # <<>>
                      THEN operation0 @@
                           [parameters |-> _create_path_parameters(endpoint.parameters)]
                      ELSE operation0
    IN  operation2 @@ [responses |-> _create_default_responses]

_create_operation(endpoint) ==
    LET tag == _extract_tag_from_path(endpoint.path)
        summary == IF endpoint.description # <<>> THEN endpoint.description
                   ELSE endpoint.method \o <<" ">> \o endpoint.path
        operation0 == [summary |-> summary,
                       operationId |-> _generate_operation_id(endpoint),
                       tags |-> <<tag>>]
        operation1 == IF endpoint.description # <<>>
                      THEN operation0 @@ [description |-> endpoint.description]
                      ELSE operation0
        operation2 == IF endpoint.parameters # <<>>
                      THEN operation1 @@
                           [parameters |-> _create_path_parameters(endpoint.parameters)]
                      ELSE operation1
    IN  operation2 @@ [responses |-> _create_default_responses]

\* the loop of _build_paths over the endpoints
RECURSIVE BuildPathsLoop(_, _, _)
BuildPathsLoop(eps, i, paths) ==
    IF i > Len(eps) THEN paths
    ELSE LET endpoint == eps[i]
             paths1 == IF ~DictHas(paths, endpoint.path)
                       THEN DictSet(paths, endpoint.path, <<>>) ELSE paths
             operation == _create_operation(endpoint)
         IN  BuildPathsLoop(eps, i + 1,
                 DictSet(paths1, endpoint.path,
                         DictSet(DictGet(paths1, endpoint.path),
                                 Lower(endpoint.method), operation)))

_build_paths(eps) == BuildPathsLoop(eps, 1, <<>>)

\* variant that always lists the default tag, used to test C12
_extract_tags_WithDefault(eps) ==
    {_extract_tag_from_path(eps[i].path) : i \in 1..Len(eps)} \cup {DefaultTag}

_extract_tags(eps) == {_extract_tag_from_path(eps[i].path) : i \in 1..Len(eps)}

_build_info_section(t) ==
    [title |-> t, version |-> API_VERSION, description |-> DEFAULT_API_DESCRIPTION]

_build_servers_section ==
    <<[url |-> DEFAULT_SERVER_URL, description |-> DEFAULT_SERVER_DESCRIPTION]>>

\* the tags sorted in descending order
_build_tags_section_Descending(tags) ==
    LET sorted == Sorted(tags)
    IN  [i \in 1..Len(sorted) |-> [name |-> sorted[Len(sorted) + 1 - i]]]

_build_tags_section(tags) ==
    LET sorted == Sorted(tags)
    IN  [i \in 1..Len(sorted) |-> [name |-> sorted[i]]]

normalize(eps, t) ==
    [openapi |-> OPENAPI_VERSION,
     info |-> _build_info_section(t),
     servers |-> _build_servers_section,
     tags |-> _build_tags_section(_extract_tags(eps)),
     paths |-> _build_paths(eps)]

(***************************************************************************)
(* The inputs of the model.                                                *)
(***************************************************************************)
\* lines that exercise the recognition rule, each the only line of its text
RecognitionLines ==
    { <<"G","E","T"," ","/","a">>,                                         \* 'GET /a'
      <<"g","e","t"," ","/","a">>,                                         \* 'get /a'
      <<"P","o","s","t"," ","/","a">>,                                     \* 'Post /a'
      <<"P","U","T"," ","/","a">>,                                         \* 'PUT /a'
      <<"D","E","L","E","T","E"," ","/","a">>,                             \* 'DELETE /a'
      <<"P","A","T","C","H"," ","/","a">>,                                 \* 'PATCH /a'
      <<"H","E","A","D"," ","/","a">>,                                     \* 'HEAD /a'
      <<"O","P","T","I","O","N","S"," ","/","a">>,                         \* 'OPTIONS /a'
      <<"G","E","T"," ","/">>,                                             \* 'GET /'
      <<"G","E","T"," ","/"," ","x">>,                                     \* 'GET / x'
      <<"G","E","T"," ","\t","/","a","/","{","i","d","}">>,                \* 'GET \t/a/{id}'
      <<" ","G","E","T"," ","/","a"," ">>,                                 \* ' GET /a '
      <<"G","E","T"," ","/","a"," ","x"," ","y">>,                         \* 'GET /a x y'
      <<"G","E","T","X"," ","/","a">>,                                     \* 'GETX /a'
      <<"G","E","T","/","a">>,                                             \* 'GET/a'
      <<"G","E","T"," ","a">>,                                             \* 'GET a'
      <<"/","a">>,                                                         \* '/a'
      <<"t","e","x","t">>,                                                 \* 'text'
      <<"T","R","A","C","E"," ","/","a">>,                                 \* 'TRACE /a'
      <<"-"," ","G","E","T"," ","/","a">>,                                 \* '- GET /a'
      <<"G","E","T"," ","/","/","x">>,                                     \* 'GET //x'
      <<"G","E","T"," ","/","{","i","d","}","/","x">>,                     \* 'GET /{id}/x'
      <<"G","E","T"," ","/","a","/","{","i","d","}","/","{","i","d","}">>, \* 'GET /a/{id}/{id}'
      <<"G","E","T"," ","/","a","/","{","b","-","c","}">>,                 \* 'GET /a/{b-c}'
      <<"G","E","T"," ","/","a","/","b","/","c">>,                         \* 'GET /a/b/c'
      <<"G","E","T"," ","/","a","{","i","d","}">>,                         \* 'GET /a{id}'
      <<"G","E","T"," ","/","b","/","a">>,                                 \* 'GET /b/a'
      <<"G","E","T"," ","/","a","/","a">>,                                 \* 'GET /a/a'
      <<"G","E","T"," ","/","a","/","{","x","}","/","{","y","}">>, \* 'GET /a/{x}/{y}'
      <<"G","E","T"," ","/","{","i","d","}">>  \* 'GET /{id}'
    }

\* lines that make up the longer texts
BodyLines ==
    { <<"G","E","T"," ","/","a">>,                                 \* 'GET /a'
      <<"p","o","s","t"," ","/","b","/","{","i","d","}"," ","x">>, \* 'post /b/{id} x'
      <<"#"," ","h">>,                                             \* '# h'
      <<>>,                                                        \* ''
      <<" ","d","1"," ">>,                                         \* ' d1 '
      <<"d","2">>                                                  \* 'd2'
    }

RECURSIVE SeqsUpTo(_, _)
SeqsUpTo(S, n) ==
    IF n = 0 THEN {<<>>}
    ELSE LET shorter == SeqsUpTo(S, n - 1)
         IN  shorter \cup {Append(s, x) : s \in {t \in shorter : Len(t) = n - 1}, x \in S}

\* the input texts: the lines joined by newlines
Contents ==
    RecognitionLines \cup
    {Join(ls, <<"\n">>) : ls \in SeqsUpTo(BodyLines, MaxLines)}

Titles == {"Demo", "api"}

\* the arguments of the Endpoint records a caller builds without the parser
DirectMethods == { <<"g","e","t">>, <<"P","O","S","T">> }

DirectPaths ==
    { <<"/">>,                         \* '/'
      <<"/","b">>,                     \* '/b'
      <<"/","a","/","{","i","d","}">>, \* '/a/{id}'
      <<"/","b","/","c">>,             \* '/b/c'
      <<"/","/","b">>              \* '//b'
    }

DirectDescriptions == { <<>>, <<"d">> }

(***************************************************************************)
(* cache.py: the cache directory maps a hash to the state of its file,     *)
(* {hash}.json.  A file is absent, holds the JSON text of a document       *)
(* ("json"), holds valid JSON of a falsy value such as {} ("falsy"),       *)
(* holds text that is not valid JSON, for instance a truncated write       *)
(* ("badjson"), holds bytes that are not UTF-8 ("undecodable"), or cannot  *)
(* be opened ("unreadable").                                               *)
(***************************************************************************)
\* the texts of the input files of the CLI runs
CliContents ==
    { <<"G","E","T"," ","/","a">>,                                \* 'GET /a'
      <<"n","o","t","e","s">>,                                    \* 'notes'
      <<"p","o","s","t"," ","/","b","/","{","i","d","}","\n","d","2">> }  \* 'post /b/{id}\nd2'

\* Cache.get_hash: SHA-256 is taken to be free of collisions, so the digest
\* stands for the content it was computed from
get_hash(text) == <<"sha256", text>>

Absent == [kind |-> "absent"]

JsonFile(doc) == [kind |-> "json", value |-> doc]

\* the states a cache file can be left in by a fault or by another writer
DamagedKinds == {"falsy", "badjson", "undecodable", "unreadable"}

EmptyCache == [h \in {get_hash(c) : c \in CliContents} |-> Absent]

\* Cache.exists
exists(content_hash) == cache[content_hash].kind # "absent"

\* Cache.get: [raised |-> the exception that escapes, or "none",
\*             value |-> the value returned]
get(content_hash) ==
    LET file == cache[content_hash]
    IN  CASE file.kind = "absent" -> [raised |-> "none", value |-> None]
          [] file.kind = "json" -> [raised |-> "none", value |-> file.value]
          [] file.kind = "falsy" -> [raised |-> "none", value |-> None]
          [] file.kind = "badjson" -> [raised |-> "none", value |-> None]
          [] file.kind = "unreadable" -> [raised |-> "none", value |-> None]
          [] file.kind = "undecodable" ->
                [raised |-> "UnicodeDecodeError", value |-> None]

\* Cache.set: the write succeeds, or open() fails and the file is as it
\* was, or the write fails after open() has truncated the file; the
\* IOError is swallowed
set(content_hash, result, outcome) ==
    CASE outcome = "written" -> [cache EXCEPT ![content_hash] = JsonFile(result)]
      [] outcome = "open_failed" -> cache
      [] outcome = "write_failed" -> [cache EXCEPT ![content_hash] = [kind |-> "badjson"]]

SetOutcomes == {"written", "open_failed", "write_failed"}

(***************************************************************************)
(* The pipeline: Parser.parse, then Normalizer.normalize.                  *)
(***************************************************************************)
CliIdle ==
    /\ inputFile = "ok"
    /\ cacheDirOk = TRUE
    /\ cache = EmptyCache
    /\ spec = None
    /\ output = None
    /\ stderr = {}
    /\ error = "none"
    /\ exitCode = -1

Init ==
    /\ pc = "start"
    /\ content \in Contents
    /\ title = "Demo"
    /\ endpoints = <<>>
    /\ schema = None
    /\ CliIdle

\* Parser.parse(content)
Parse ==
    /\ pc = "start"
    /\ endpoints' = parse(content)
    /\ pc' = "parsed"
    /\ UNCHANGED <<content, title, schema>>
    /\ UNCHANGED cliVars

\* a caller without input text appends one Endpoint(method, path,
\* description, parameters) to the list it will hand to the Normalizer
MakeEndpoint ==
    /\ pc \in {"start", "built"}
    /\ content = <<>>
    /\ Len(endpoints) < MaxEndpoints
    /\ \E method \in DirectMethods, path \in DirectPaths,
          description \in DirectDescriptions :
            endpoints' = Append(endpoints,
                Endpoint(method, path, description, _extract_path_parameters(path)))
    /\ pc' = "built"
    /\ UNCHANGED <<content, title, schema>>
    /\ UNCHANGED cliVars

\* Normalizer.normalize(endpoints, title)
Normalize ==
    /\ pc \in {"parsed", "built"}
    /\ schema' = normalize(endpoints, title)
    /\ pc' = "normalized"
    /\ UNCHANGED <<content, title, endpoints>>
    /\ UNCHANGED cliVars

Next == Parse \/ MakeEndpoint \/ Normalize

Spec == Init /\ [][Next]_vars

(***************************************************************************)
(* cli.py: the runs of the CLI, one after the other, on one cache          *)
(* directory; between the steps of a run, faults and other writers may     *)
(* damage or remove cache files.                                           *)
(***************************************************************************)
CliInit ==
    /\ pc = "idle"
    /\ content = <<>>
    /\ title = "Demo"
    /\ endpoints = <<>>
    /\ schema = None
    /\ CliIdle

\* main(): a new invocation on an input path whose file is there with some
\* content, is missing, or cannot be read
Start ==
    /\ pc \in {"idle", "exited"}
    /\ inputFile' \in {"ok", "missing", "unreadable"}
    /\ content' \in CliContents
    /\ title' \in Titles
    /\ cacheDirOk' \in BOOLEAN
    /\ endpoints' = <<>>
    /\ schema' = None
    /\ spec' = None
    /\ output' = None
    /\ stderr' = {}
    /\ error' = "none"
    /\ exitCode' = -1
    /\ pc' = "main"
    /\ UNCHANGED cache

\* main(), the except branch: the error is reported and the exit status is 1
Fatal(exception) ==
    /\ error' = exception
    /\ stderr' = stderr \cup {"Error"}
    /\ exitCode' = 1
    /\ pc' = "exited"

\* Processor(): Cache() creates the cache directory
NewProcessor ==
    /\ pc = "main"
    /\ IF cacheDirOk
       THEN /\ pc' = "process_file"
            /\ UNCHANGED <<stderr, error, exitCode>>
       ELSE Fatal("OSError:mkdir")
    /\ UNCHANGED <<content, title, endpoints, schema, inputFile, cacheDirOk,
                   cache, spec, output>>

\* process_file: _validate_input_file and _read_input_file
ReadInput ==
    /\ pc = "process_file"
    /\ CASE inputFile = "missing" -> Fatal("FileNotFoundError")
         [] inputFile = "unreadable" -> Fatal("OSError:read")
         [] inputFile = "ok" -> /\ pc' = "exists"
                                /\ UNCHANGED <<stderr, error, exitCode>>
    /\ UNCHANGED <<content, title, endpoints, schema, inputFile, cacheDirOk,
                   cache, spec, output>>

\* _get_or_process_spec: content_hash, then self.cache.exists(content_hash)
CacheExists ==
    /\ pc = "exists"
    /\ IF exists(get_hash(content))
       THEN /\ stderr' = stderr \cup {"[cache] using cached result"}
            /\ pc' = "get"
       ELSE /\ stderr' = stderr
            /\ pc' = "process"
    /\ UNCHANGED <<content, title, endpoints, schema, inputFile, cacheDirOk,
                   cache, spec, output, error, exitCode>>

\* _get_or_process_spec: self.cache.get(content_hash), returned if truthy
CacheGet ==
    /\ pc = "get"
    /\ LET got == get(get_hash(content))
       IN  IF got.raised # "none"
           THEN /\ Fatal(got.raised)
                /\ spec' = spec
           ELSE IF got.value # None
           THEN /\ spec' = got.value
                /\ pc' = "write"
                /\ UNCHANGED <<stderr, error, exitCode>>
           ELSE /\ spec' = spec
                /\ pc' = "process"
                /\ UNCHANGED <<stderr, error, exitCode>>
    /\ UNCHANGED <<content, title, endpoints, schema, inputFile, cacheDirOk,
                   cache, output>>

\* _get_or_process_spec: _process_content, then self.cache.set, then return
ProcessAndSet ==
    /\ pc = "process"
    /\ endpoints' = parse(content)
    /\ stderr' = IF endpoints' = <<>> THEN stderr \cup {"Warning"} ELSE stderr
    /\ schema' = normalize(endpoints', title)
    /\ \E outcome \in SetOutcomes : cache' = set(get_hash(content), schema', outcome)
    /\ spec' = schema'
    /\ pc' = "write"
    /\ UNCHANGED <<content, title, inputFile, cacheDirOk, output, error, exitCode>>

\* process_file: _determine_output_file and _write_output_file; the
\* output file is written or cannot be
WriteOutput ==
    /\ pc = "write"
    /\ \/ /\ output' = spec
          /\ exitCode' = 0
          /\ pc' = "exited"
          /\ UNCHANGED <<stderr, error>>
       \/ /\ Fatal("OSError:write")
          /\ output' = output
    /\ UNCHANGED <<content, title, endpoints, schema, inputFile, cacheDirOk,
                   cache, spec>>

\* a fault, or another invocation caught in the middle of its write,
\* leaves a cache file damaged
Damage ==
    /\ pc # "idle"
    /\ \E h \in DOMAIN cache, kind \in DamagedKinds :
          /\ cache[h].kind # "absent"
          /\ cache' = [cache EXCEPT ![h] = [kind |-> kind]]
    /\ UNCHANGED <<pc, content, title, endpoints, schema, inputFile, cacheDirOk,
                   spec, output, stderr, error, exitCode>>

\* a cache file is removed
Remove ==
    /\ pc # "idle"
    /\ \E h \in DOMAIN cache :
          /\ cache[h].kind # "absent"
          /\ cache' = [cache EXCEPT ![h] = Absent]
    /\ UNCHANGED <<pc, content, title, endpoints, schema, inputFile, cacheDirOk,
                   spec, output, stderr, error, exitCode>>

CliNext ==
    \/ Start
    \/ NewProcessor
    \/ ReadInput
    \/ CacheExists
    \/ CacheGet
    \/ ProcessAndSet
    \/ WriteOutput
    \/ Damage
    \/ Remove

CliSpec == CliInit /\ [][CliNext]_vars

(***************************************************************************)
(* Shared vocabulary of the properties.                                    *)
(***************************************************************************)
Lines == Split(content, "\n")

\* the indices of the lines on which the parser recognizes a declaration
RecognizedLines(lines) ==
    {i \in 1..Len(lines) : ENDPOINT_PATTERN(Strip(lines[i])) # None}

\* the index of the j-th of the recognized lines rec, counting from the top
NthRecognized(rec, j) ==
    CHOOSE i \in rec : Cardinality({k \in rec : k <= i}) = j

SameSlot(e1, e2) == e1.path = e2.path /\ Lower(e1.method) = Lower(e2.method)

\* endpoint i is the last of the sequence for its path and method
IsLast(i) == \A j \in (i + 1)..Len(endpoints) : ~SameSlot(endpoints[i], endpoints[j])

\* the operation stored in the document for the slot of endpoint i
OpOf(i) == DictGet(DictGet(schema.paths, endpoints[i].path), Lower(endpoints[i].method))

(***************************************************************************)
(* C2: a line is recognized as a declaration exactly when, stripped, it    *)
(* is a method token in any case, one or more whitespace characters, and   *)
(* a path token that starts with '/' and has no whitespace, '/' alone      *)
(* included; the record has the token in upper case and the whole token    *)
(* as path.                                                                *)
(***************************************************************************)
\* the declaration the claim reads in a line: None or [method, path]
ClaimedDeclaration(line) ==
    LET s == Strip(line)
        cands == {c \in (1..Len(HTTP_METHODS)) \X (1..Len(s)) :
                    LET m == Len(HTTP_METHODS[c[1]])
                    IN  /\ Len(s) >= m + c[2] + 1
                        /\ Upper(SubSeq(s, 1, m)) = HTTP_METHODS[c[1]]
                        /\ \A j \in (m + 1)..(m + c[2]) : IsSpace(s[j])
                        /\ s[m + c[2] + 1] = "/"}
    IN  IF cands = {} THEN None
        ELSE LET c == CHOOSE x \in cands : TRUE
                 from == Len(HTTP_METHODS[c[1]]) + c[2] + 1
                 to == CHOOSE e \in from..Len(s) :
                          /\ \A j \in from..e : ~IsSpace(s[j])
                          /\ e = Len(s) \/ IsSpace(s[e + 1])
             IN  [method |-> HTTP_METHODS[c[1]], path |-> SubSeq(s, from, to)]

C2_RecognitionRule ==
    pc = "parsed" =>
        LET lines == Lines
        IN  Len(lines) = 1 =>
              LET d == ClaimedDeclaration(lines[1])
              IN  IF d = None THEN endpoints = <<>>
                  ELSE /\ Len(endpoints) = 1
                       /\ endpoints[1].method = d.method
                       /\ endpoints[1].path = d.path

(***************************************************************************)
(* C3: parse returns one record per recognized line, in the order of the   *)
(* lines, never merging or deduplicating; no recognized line, no record.   *)
(***************************************************************************)
C3_OneRecordPerLine ==
    pc = "parsed" =>
        LET lines == Lines
            rec == RecognizedLines(lines)
        IN  /\ Len(endpoints) = Cardinality(rec)
            /\ \A j \in 1..Len(endpoints) :
                  LET i == NthRecognized(rec, j)
                      match == ENDPOINT_PATTERN(Strip(lines[i]))
                  IN  /\ endpoints[j].method = Upper(match.method)
                      /\ endpoints[j].path = match.path
                      /\ endpoints[j].description = _extract_description(lines, i)

\* three declarations of the same method and path, with an unrecognized
\* line among them, gave three records
C3_Witness ==
    /\ pc = "parsed"
    /\ Len(endpoints) = 3
    /\ Len(Lines) > 3
    /\ \A j \in 1..3 : SameSlot(endpoints[j], endpoints[1])

(***************************************************************************)
(* C4: the description of the declaration at line i is the stripped        *)
(* non-empty lines among i+1..i+3 that precede the first stopping line     *)
(* (a declaration, a '#' line, or an empty line once a fragment has been   *)
(* collected), joined by single spaces and trimmed.  A declaration is a    *)
(* line on which the parser's pattern matches.                             *)
(***************************************************************************)
ClaimedStops(stripped, i, k) ==
    \/ ENDPOINT_PATTERN(stripped[k]) # None
    \/ (stripped[k] # <<>> /\ stripped[k][1] = "#")
    \/ (stripped[k] = <<>> /\ \E h \in (i + 1)..(k - 1) : stripped[h] # <<>>)

ClaimedDescription(stripped, i) ==
    LET last == IF i + 3 <= Len(stripped) THEN i + 3 ELSE Len(stripped)
        stops == {k \in (i + 1)..last : ClaimedStops(stripped, i, k)}
        upto == IF stops = {} THEN last
                ELSE (CHOOSE k \in stops : \A h \in stops : k <= h) - 1
    IN  Strip(Join(SelectSeq(SubSeq(stripped, i + 1, upto), LAMBDA l : l # <<>>),
                   <<" ">>))

FirstIndexOf(path) ==
    CHOOSE i \in 1..Len(endpoints) :
        /\ endpoints[i].path = path
        /\ \A j \in 1..(i - 1) : endpoints[j].path # path

C5_Paths ==
    pc = "normalized" =>
        LET paths == schema.paths
        IN  /\ UNION {{<<paths[a].key, paths[a].value[b].key>> :
                          b \in 1..Len(paths[a].value)} : a \in 1..Len(paths)}
                 = {<<endpoints[i].path, Lower(endpoints[i].method)>> :
                          i \in 1..Len(endpoints)}
            /\ \A a \in 1..Len(paths) :
                  /\ paths[a].value # <<>>
                  /\ \A b, c \in 1..Len(paths[a].value) :
                        paths[a].value[b].key = paths[a].value[c].key => b = c
            /\ \A i \in 1..Len(endpoints) :
                  IsLast(i) => OpOf(i) = _create_operation(endpoints[i])
            /\ \A a, b \in 1..Len(paths) :
                  a < b => FirstIndexOf(paths[a].key) < FirstIndexOf(paths[b].key)

\* a slot written twice with different operations, between them an
\* endpoint of another path
C5_Witness ==
    /\ pc = "normalized"
    /\ Len(endpoints) = 3
    /\ SameSlot(endpoints[1], endpoints[3])
    /\ endpoints[1].description # endpoints[3].description
    /\ endpoints[2].path # endpoints[1].path
    /\ Len(schema.paths) = 2
    /\ OpOf(1).summary = endpoints[3].description

(***************************************************************************)
(* C6: the operationId is '<method>_root' when the path has no literal     *)
(* segment (parameters or not); else '<method>_<first>_by_<first           *)
(* parameter>' when the endpoint has a parameter; else                     *)
(* '<method>_<first>_<last>' when there are several literal segments;      *)
(* else '<method>_<first>'.  Two endpoints may get the same operationId.   *)
(***************************************************************************)
IsLiteralSegment(seg) == seg # <<>> /\ ~StartsWith(seg, <<"{">>)

ClaimedOperationId(e) ==
    LET m == Lower(e.method)
        segments == SelectSeq(Split(e.path, "/"), IsLiteralSegment)
        u == <<"_">>
    IN  CASE Len(segments) = 0 -> m \o u \o <<"r","o","o","t">>
          [] Len(segments) > 0 /\ Len(e.parameters) > 0 ->
                Join(<<m, segments[1], <<"b","y">>, e.parameters[1]>>, u)
          [] Len(segments) > 1 /\ Len(e.parameters) = 0 ->
                Join(<<m, segments[1], segments[Len(segments)]>>, u)
          [] Len(segments) = 1 /\ Len(e.parameters) = 0 ->
                Join(<<m, segments[1]>>, u)

ClaimedTag(path) ==
    LET n == Cardinality({k \in 2..Len(path) :
                            \A h \in 2..k : path[h] \notin {"/", "{"}})
    IN  IF n = 0 THEN <<"d","e","f","a","u","l","t">> ELSE SubSeq(path, 2, n + 1)

C7_Tags ==
    pc = "normalized" =>
        /\ \A i \in 1..Len(endpoints) :
              IsLast(i) => OpOf(i).tags = <<ClaimedTag(endpoints[i].path)>>
        /\ {schema.tags[a].name : a \in 1..Len(schema.tags)}
             = {ClaimedTag(endpoints[i].path) : i \in 1..Len(endpoints)}
        /\ \A a \in 1..Len(schema.tags) : DOMAIN schema.tags[a] = {"name"}
        /\ \A a \in 1..(Len(schema.tags) - 1) :
              StrLess(schema.tags[a].name, schema.tags[a + 1].name)

\* two endpoints whose tags come default, a and are listed a, default
C7_Witness ==
    /\ pc = "normalized"
    /\ Len(endpoints) = 2
    /\ Len(schema.tags) = 2
    /\ OpOf(1).tags[1] = schema.tags[2].name
    /\ OpOf(2).tags[1] = schema.tags[1].name
    /\ schema.tags[2].name = DefaultTag

(***************************************************************************)
(* C8: summary is the description, or '<METHOD> <path>' when there is      *)
(* none; the description key is present iff the description is non-empty;  *)
(* the parameters key is present iff the endpoint has a parameter, one     *)
(* object per name in order, duplicates kept; responses is the fixed '200' *)
(* entry.                                                                  *)
(***************************************************************************)
ClaimedOperation(e, op) ==
    /\ op.summary = IF e.description # <<>> THEN e.description
                    ELSE Upper(e.method) \o <<" ">> \o e.path
    /\ ("description" \in DOMAIN op) = (e.description # <<>>)
    /\ "description" \in DOMAIN op => op.description = e.description
    /\ ("parameters" \in DOMAIN op) = (e.parameters # <<>>)
    /\ "parameters" \in DOMAIN op =>
          /\ Len(op.parameters) = Len(e.parameters)
          /\ \A k \in 1..Len(e.parameters) :
                /\ op.parameters[k].name = e.parameters[k]
                /\ op.parameters[k].in = "path"
                /\ op.parameters[k].required = TRUE
                /\ op.parameters[k].schema = [type |-> "string"]
    /\ DOMAIN op.responses = {"200"}
    /\ op.responses["200"].description = "Respuesta exitosa"
    /\ DOMAIN op.responses["200"].content = {"application/json"}
    /\ op.responses["200"].content["application/json"] = [schema |-> [type |-> "object"]]

C8_Operation ==
    pc = "normalized" =>
        \A i \in 1..Len(endpoints) :
            IsLast(i) => ClaimedOperation(endpoints[i], OpOf(i))

\* an operation without description and with the same parameter twice
C8_Witness ==
    /\ pc = "normalized"
    /\ \E i \in 1..Len(endpoints) :
          /\ endpoints[i].description = <<>>
          /\ Len(endpoints[i].parameters) = 2
          /\ endpoints[i].parameters[1] = endpoints[i].parameters[2]
          /\ Len(OpOf(i).parameters) = 2
          /\ "description" \notin DOMAIN OpOf(i)

(***************************************************************************)
(* C1: the cache is a valid optimization: after any sequence of earlier    *)
(* runs on one cache directory, the document _get_or_process_spec returns  *)
(* for (content, title) is normalize(parse(content), title).               *)
(***************************************************************************)
C1_CacheIsValid ==
    pc = "write" => spec = normalize(parse(content), title)

(***************************************************************************)
(* C9: a cache entry that is not valid JSON, cannot be decoded, cannot be  *)
(* opened or read, or was removed since exists(), is a miss: Cache.get     *)
(* returns absent without raising, the run does not end in the fatal       *)
(* state there, and it recomputes the schema and returns it.               *)
(***************************************************************************)
ClaimedMisses == {"absent", "badjson", "undecodable", "unreadable"}

C9_CorruptEntryIsMiss ==
    [][ /\ (/\ pc = "get"
            /\ pc' # "get"
            /\ cache[get_hash(content)].kind \in ClaimedMisses)
           => (pc' = "process" /\ error' = "none" /\ exitCode' # 1)
        /\ (pc = "process" /\ pc' # "process")
           => (pc' = "write" /\ spec' = normalize(parse(content), title))
      ]_vars

(***************************************************************************)
(* C10: a run ends in the fatal state (error reported, exit status 1)      *)
(* only when the input file does not exist; whenever it exists the run     *)
(* completes, whatever fails in the cache, and the schema it computed is   *)
(* written to the output.  The claim is read to its advantage: an input    *)
(* file that cannot be read and an output file that cannot be written are  *)
(* set aside.                                                              *)
(***************************************************************************)
C10_OnlyMissingInputIsFatal ==
    pc = "exited" =>
        /\ inputFile = "missing" => exitCode = 1
        /\ (inputFile = "ok" /\ error # "OSError:write") =>
              (exitCode = 0 /\ spec # None /\ output = spec)

(***************************************************************************)
(* C11: every run whose input text has no recognized declaration line      *)
(* warns the operator on the diagnostic stream and succeeds with a schema  *)
(* whose paths and tags are empty, a second run on the same content after  *)
(* the first one's result was cached included.  The claim is read to its   *)
(* advantage: only the runs that end with exit status 0 are held to it.    *)
(***************************************************************************)
C11_NoEndpointsWarns ==
    (pc = "exited" /\ exitCode = 0 /\ parse(content) = <<>>) =>
        /\ "Warning" \in stderr
        /\ output.paths = <<>>
        /\ output.tags = <<>>

(***************************************************************************)
(* C12: the names of the tags section are exactly the tags carried by the  *)
(* operations present in paths: every operation has a single tag and it is *)
(* listed, and every listed tag is the tag of some operation of paths,     *)
(* also when an endpoint was overwritten by a later one with the same path *)
(* and method.                                                             *)
(***************************************************************************)
C12_TagsMatchOperations ==
    pc = "normalized" =>
        LET paths == schema.paths
            \* the operations of the document, read from paths alone
            operations == UNION {{paths[a].value[b].value :
                                    b \in 1..Len(paths[a].value)} :
                                 a \in 1..Len(paths)}
        IN  /\ \A operation \in operations : Len(operation.tags) = 1
            /\ {schema.tags[a].name : a \in 1..Len(schema.tags)}
                 = {operation.tags[1] : operation \in operations}

C12_Witness ==
    /\ pc = "normalized"
    /\ Len(endpoints) = 3
    /\ SameSlot(endpoints[1], endpoints[3])
    /\ endpoints[1].description # endpoints[3].description
    /\ ~IsLast(1)
    /\ Len(schema.paths) = 2
    /\ Len(schema.tags) = 2
    /\ OpOf(2).tags[1] # OpOf(3).tags[1]

=============================================================================
